---- MODULE Spec2Model ----
(***************************************************************************)
(* A model of the mind2web package: the dataclasses of mind2web_types.py   *)
(* (Operation, Candidate, Action, Task, Mind2WebDataset) with their        *)
(* derived accessors, and the loader functions of mind2web_loader.py.      *)
(*                                                                         *)
(* Five specifications share the module's variables:                       *)
(*   Spec           Mind2WebDataset objects of one process, the calls      *)
(*                  filter_by_website / filter_by_domain / sample on them  *)
(*                  and the process-wide generator of the random module    *)
(*   SpecAction     Action.has_ground_truth / primary_ground_truth         *)
(*   SpecTask       Task.operation_counts / get_previous_actions           *)
(*   SpecCandidate  Candidate.attributes_dict / is_clickable / bounding_box*)
(*   SpecLoader     load_json_file / load_multiple_files                   *)
(***************************************************************************)
EXTENDS Integers, Sequences, FiniteSets, TLC

VARIABLES
    taskObjs,   \* the Task instances of the process: reference -> fields
    datasets,   \* the Mind2WebDataset instances, in order of construction
    rng,        \* the state of the random module's process-wide generator
    call,       \* the last call made on a dataset, with what it returned
    first,      \* the first seeded sample call of the run (history)
    action,     \* the Action an accessor is called on
    task,       \* the Task an accessor is called on
    candidate,  \* the Candidate an accessor is called on
    acc,        \* the last accessor call, with what it returned
    loaded      \* the last loader call, with what it returned

vars == <<taskObjs, datasets, rng, call, first, action, task, candidate, acc, loaded>>

\* A variable of another specification than the one being run.
Idle == <<>>

Min(a, b) == IF a <= b THEN a ELSE b
Max(a, b) == IF a >= b THEN a ELSE b

\* Optional[T]: None is the empty sequence, a value v is <<v>>.
None == <<>>
Some(v) == <<v>>

(***************************************************************************)
(* The dataclasses of mind2web_types.py                                    *)
(***************************************************************************)
Operation(op, value, original_op) ==
    [op |-> op, value |-> value, original_op |-> original_op]

Candidate(backend_node_id, tag, attributes, is_original_target, is_top_level_target) ==
    [backend_node_id |-> backend_node_id, tag |-> tag, attributes |-> attributes,
     is_original_target |-> is_original_target,
     is_top_level_target |-> is_top_level_target]

Action(action_uid, raw_html, cleaned_html, operation, pos_candidates, neg_candidates) ==
    [action_uid |-> action_uid, raw_html |-> raw_html, cleaned_html |-> cleaned_html,
     operation |-> operation, pos_candidates |-> pos_candidates,
     neg_candidates |-> neg_candidates]

Task(annotation_id, website, domain, subdomain, confirmed_task, action_reprs, actions) ==
    [annotation_id |-> annotation_id, website |-> website, domain |-> domain,
     subdomain |-> subdomain, confirmed_task |-> confirmed_task,
     action_reprs |-> action_reprs, actions |-> actions]

\* Mind2WebDataset(tasks, split); split is the label as the sequence of the
\* pieces an f-string joins (one piece when it is a plain string).
Mind2WebDataset(ts, split) == [tasks |-> ts, split |-> split]

(***************************************************************************)
(* Bounds of the dataset calls                                             *)
(***************************************************************************)
NumTasks == 3       \* Task instances in the initial dataset
MaxDatasets == 3    \* Mind2WebDataset instances alive in one run
RngMod == 4         \* states of the process-wide generator

(***************************************************************************)
(* Mind2WebDataset: filter_by_website, filter_by_domain, sample            *)
(***************************************************************************)
Websites == {"united", "amazon"}
Domains == {"Travel"}
Seeds == {None, Some(0), Some(42)}
SampleSizes == {0 - 1, 0, 2, NumTasks + 1}

WebsiteOf(r) == IF r % 3 = 1 THEN "united" ELSE IF r % 3 = 2 THEN "United" ELSE "yelp"
DomainOf(r) == IF r % 2 = 1 THEN "Travel" ELSE "Info"

\* The Task instance with reference r. A dataset's tasks are references
\* into taskObjs: two datasets holding r share the instance.
TaskObj(r) == Task(ToString(r), WebsiteOf(r), DomainOf(r), "Airlines", "book a flight", <<>>, <<>>)

RECURSIVE ListComp(_, _)
\* [t for t in ts if keep[t]], keep a set of references
ListComp(ts, keep) ==
    IF ts = <<>> THEN <<>>
    ELSE (IF Head(ts) \in keep THEN <<Head(ts)>> ELSE <<>>) \o ListComp(Tail(ts), keep)

\* Variant: a filter that compares websites ignoring case.
FilterByWebsiteFolded(objs, d, website) ==
    LET low(s) == IF s = "United" THEN "united" ELSE s IN
    Mind2WebDataset(
        ListComp(d.tasks, {r \in DOMAIN objs : low(objs[r].website) = low(website)}),
        d.split \o <<"__", website>>)

FilterByWebsite(objs, d, website) ==
    Mind2WebDataset(
        ListComp(d.tasks, {r \in DOMAIN objs : objs[r].website = website}),
        d.split \o <<"__", website>>)

FilterByDomain(objs, d, domain) ==
    Mind2WebDataset(
        ListComp(d.tasks, {r \in DOMAIN objs : objs[r].domain = domain}),
        d.split \o <<"__", domain>>)

\* random.seed(seed): the generator's state becomes a function of the seed alone.
SeedState(seed) == seed % RngMod

\* One step of the generator (a full-period congruential generator stands for
\* the Mersenne Twister): the state it moves to.
Advance(s) == (5 * s + 3) % RngMod

\* random._randbelow(n): draws from the generator, returns a value in 0..n-1.
RandBelow(s, n) == [state |-> Advance(s), val |-> Advance(s) % n]

\* Variant: a selection loop that draws with replacement.
RECURSIVE SampleLoopRepl(_, _, _, _, _)
SampleLoopRepl(pool, n, k, i, s) ==
    IF i = k THEN [picks |-> <<>>, state |-> s]
    ELSE LET r == RandBelow(s, n)
             rest == SampleLoopRepl(pool, n, k, i + 1, r.state)
         IN [picks |-> <<pool[r.val + 1]>> \o rest.picks, state |-> rest.state]

RECURSIVE SampleLoop(_, _, _, _, _)
\* The selection loop of random.sample for a small population:
\*   pool = list(population)
\*   for i in range(k): j = randbelow(n - i); result[i] = pool[j]; pool[j] = pool[n - i - 1]
SampleLoop(pool, n, k, i, s) ==
    IF i = k THEN [picks |-> <<>>, state |-> s]
    ELSE LET r == RandBelow(s, n - i)
             j == r.val + 1
             rest == SampleLoop([pool EXCEPT ![j] = pool[n - i]], n, k, i + 1, r.state)
         IN [picks |-> <<pool[j]>> \o rest.picks, state |-> rest.state]

\* random.sample(population, k) from generator state s: ValueError unless
\* 0 <= k <= len(population), raised before anything is drawn.
RandomSample(population, k, s) ==
    IF k < 0 \/ k > Len(population)
    THEN [raised |-> TRUE, picks |-> <<>>, state |-> s]
    ELSE [raised |-> FALSE] @@ SampleLoop(population, Len(population), k, 0, s)

\* Variant: a sample that ignores its seed.
StateAfterSeedKept(s, seed) == s

\* if seed is not None: random.seed(seed)
StateAfterSeed(s, seed) == IF seed = None THEN s ELSE SeedState(seed[1])

\* Mind2WebDataset.sample(n, seed) on d with the generator in state s:
\* what it returns (or that it raised) and the state it leaves the generator in.
Sample(d, n, seed, s) ==
    LET got == RandomSample(d.tasks, Min(n, Len(d.tasks)), StateAfterSeed(s, seed))
    IN [raised |-> got.raised,
        ret |-> Mind2WebDataset(got.picks, d.split \o <<"__sample", ToString(n)>>),
        state |-> got.state]

\* Variant: a call that also stores its result in the dataset it was called on.
ReturnInPlace(ds, i, d) == Append([ds EXCEPT ![i] = d], d)

\* The instances after a call on datasets[i] that returned the new instance d.
Return(ds, i, d) == Append(ds, d)

Call(op, i, arg, n, seed, raised) ==
    [op |-> op, src |-> i, arg |-> arg, n |-> n, seed |-> seed, raised |-> raised]

NoCall == Call("", 0, "", 0, None, FALSE)

InitDatasets ==
    /\ taskObjs = [r \in 1 .. NumTasks |-> TaskObj(r)]
    /\ datasets = <<Mind2WebDataset([r \in 1 .. NumTasks |-> r], <<"train_0">>)>>
    /\ rng \in 0 .. (RngMod - 1)
    /\ call = NoCall
    /\ first = None

Init ==
    /\ InitDatasets
    /\ action = Idle /\ task = Idle /\ candidate = Idle /\ acc = Idle
    /\ loaded = Idle

DoFilterByWebsite(i, w) ==
    /\ Len(datasets) < MaxDatasets
    /\ datasets' = Return(datasets, i, FilterByWebsite(taskObjs, datasets[i], w))
    /\ call' = Call("filter_by_website", i, w, 0, None, FALSE)
    /\ UNCHANGED <<taskObjs, rng, first>>

DoFilterByDomain(i, dm) ==
    /\ Len(datasets) < MaxDatasets
    /\ datasets' = Return(datasets, i, FilterByDomain(taskObjs, datasets[i], dm))
    /\ call' = Call("filter_by_domain", i, dm, 0, None, FALSE)
    /\ UNCHANGED <<taskObjs, rng, first>>

DoSample(i, n, seed) ==
    LET got == Sample(datasets[i], n, seed, rng) IN
    /\ Len(datasets) < MaxDatasets
    /\ datasets' = IF got.raised THEN datasets ELSE Return(datasets, i, got.ret)
    /\ rng' = got.state
    /\ call' = Call("sample", i, "", n, seed, got.raised)
    /\ first' = IF first = None /\ seed # None
                THEN Some([at |-> Len(datasets), tasks |-> datasets[i].tasks, n |-> n,
                           seed |-> seed, raised |-> got.raised, ret |-> got.ret.tasks])
                ELSE first
    /\ UNCHANGED taskObjs

FilterByWebsiteCall ==
    /\ \E i \in DOMAIN datasets, w \in Websites : DoFilterByWebsite(i, w)
    /\ UNCHANGED <<action, task, candidate, acc, loaded>>

FilterByDomainCall ==
    /\ \E i \in DOMAIN datasets, dm \in Domains : DoFilterByDomain(i, dm)
    /\ UNCHANGED <<action, task, candidate, acc, loaded>>

SampleCall ==
    /\ \E i \in DOMAIN datasets, n \in SampleSizes, seed \in Seeds : DoSample(i, n, seed)
    /\ UNCHANGED <<action, task, candidate, acc, loaded>>

Next ==
    \/ FilterByWebsiteCall
    \/ FilterByDomainCall
    \/ SampleCall

Spec == Init /\ [][Next]_vars

(***************************************************************************)
(* Properties of the dataset calls                                         *)
(***************************************************************************)
Range(f) == {f[x] : x \in DOMAIN f}

\* The instance the last call was made on, and the one it returned.
Src == datasets[call.src]
Ret == datasets[Len(datasets)]

\* r holds exactly the elements of src at the positions P, in src's order.
KeptInOrder(r, src, P) ==
    /\ Len(r) = Cardinality(P)
    /\ \E f \in [DOMAIN r -> P] :
          /\ \A i, j \in DOMAIN r : i < j => f[i] < f[j]
          /\ \A i \in DOMAIN r : r[i] = src[f[i]]

\* r takes each of its elements from a position of src of its own.
WithoutReplacement(r, src) ==
    \E f \in [DOMAIN r -> DOMAIN src] :
        /\ \A i, j \in DOMAIN r : i # j => f[i] # f[j]
        /\ \A i \in DOMAIN r : r[i] = src[f[i]]

Occurrences(s, x) == Cardinality({i \in DOMAIN s : s[i] = x})

C4_SeededSampleDeterministic ==
    (/\ call.op = "sample" /\ call.seed # None /\ first # None
     /\ first[1].tasks = Src.tasks /\ first[1].n = call.n /\ first[1].seed = call.seed)
    => /\ call.raised = first[1].raised
       /\ ~call.raised => Ret.tasks = first[1].ret

\* C4 witness: the first seeded call returned two tasks of the initial
\* dataset, and a later call with the same dataset, n and seed returned too.
C4_Witness ==
    /\ first # None /\ first[1].at = 1 /\ ~first[1].raised /\ first[1].n = 2
    /\ Len(datasets) = 3
    /\ call.op = "sample" /\ call.seed = first[1].seed /\ call.n = 2 /\ call.src = 1
    /\ ~call.raised

SampleReturns ==
    /\ ~call.raised
    /\ Len(Ret.tasks) = Min(call.n, Len(Src.tasks))
    /\ WithoutReplacement(Ret.tasks, Src.tasks)
    /\ call.n >= Len(Src.tasks) =>
          \A r \in Range(Src.tasks) \cup Range(Ret.tasks) :
              Occurrences(Ret.tasks, r) = Occurrences(Src.tasks, r)

\* C5 as claimed: for every integer n, sample(d, n) returns a dataset of
\* exactly min(n, num_tasks(d)) tasks, each from a distinct position of
\* d.tasks, and every task of d exactly once when n >= num_tasks(d).
C5_SampleEveryInteger == call.op = "sample" => SampleReturns

\* C5 as amended: that holds for every n >= 0; for n < 0 the call raises
\* (ValueError of random.sample) and returns no dataset.
C5_SampleNonNegative ==
    call.op = "sample" =>
        /\ call.n >= 0 => SampleReturns
        /\ call.n < 0 => call.raised

\* C5 witness: a sample of two tasks out of three returned.
C5_Witness ==
    /\ call.op = "sample" /\ call.n = 2 /\ ~call.raised
    /\ Len(Src.tasks) = 3 /\ Len(Ret.tasks) = 2

\* C6: no call changes the split or the task sequence of an existing
\* dataset, or a field of a Task; a call that returns adds one dataset, whose
\* tasks are Task instances of the dataset it was called on.
C6_CallsDoNotMutate ==
    [][/\ taskObjs' = taskObjs
       /\ \A i \in DOMAIN datasets : i \in DOMAIN datasets' /\ datasets'[i] = datasets[i]
       /\ Len(datasets') # Len(datasets) =>
             /\ Len(datasets') = Len(datasets) + 1
             /\ Range(datasets'[Len(datasets')].tasks) \subseteq Range(datasets[call'.src].tasks)
             /\ Range(datasets'[Len(datasets')].tasks) \subseteq DOMAIN taskObjs]_vars

\* C6 witness: a filter that dropped tasks and then a sample on the initial
\* dataset have both returned.
C6_Witness ==
    /\ Len(datasets) = 3
    /\ Len(datasets[2].tasks) < Len(datasets[1].tasks)
    /\ datasets[2].split = <<"train_0", "__", "united">>
    /\ call.op = "sample" /\ call.src = 1 /\ ~call.raised /\ call.n = 2

\* C10 as claimed: a seeded sample call leaves the state of the process-wide
\* generator as it found it.
C10_SeededSampleKeepsGenerator ==
    [][(\E i \in DOMAIN datasets, n \in SampleSizes, seed \in Seeds \ {None} :
            DoSample(i, n, seed)) => rng' = rng]_vars

(***************************************************************************)
(* Accessors: the record of a call                                         *)
(***************************************************************************)
\* The last accessor call: its name, its arguments, whether it raised, and
\* the value it returned.
Acc(name, args, raised, val) == [name |-> name, args |-> args, raised |-> raised, val |-> val]

NoAcc == Acc("", <<>>, FALSE, None)

RECURSIVE SeqsUpTo(_, _)
\* The sequences over S of length at most n.
SeqsUpTo(S, n) ==
    IF n = 0 THEN {<<>>}
    ELSE LET shorter == SeqsUpTo(S, n - 1)
         IN shorter \cup {Append(q, x) : q \in shorter, x \in S}

(***************************************************************************)
(* Action: has_ground_truth, primary_ground_truth                          *)
(***************************************************************************)
MaxCandidates == 3   \* positive candidates of an Action

NodeIds == {"n1", "n2"}

Candidates == {Candidate(id, "a", <<>>, orig, FALSE) : id \in NodeIds, orig \in BOOLEAN}

\* len(self.pos_candidates) > 0
HasGroundTruth(a) == Len(a.pos_candidates) > 0

RECURSIVE FirstOriginal(_)
\* for candidate in self.pos_candidates: if candidate.is_original_target: return candidate
FirstOriginal(cs) ==
    IF cs = <<>> THEN None
    ELSE IF Head(cs).is_original_target THEN Some(Head(cs))
    ELSE FirstOriginal(Tail(cs))

\* Variant: the first positive candidate whatever the flags.
PrimaryGroundTruthFirst(a) ==
    IF Len(a.pos_candidates) > 0 THEN Some(a.pos_candidates[1]) ELSE None

PrimaryGroundTruth(a) ==
    LET found == FirstOriginal(a.pos_candidates)
    IN IF Len(found) > 0 THEN found
       ELSE IF Len(a.pos_candidates) > 0 THEN Some(a.pos_candidates[1]) ELSE None

InitAction ==
    /\ action \in {Action("u1", "<html>", "<html>", Operation("CLICK", "", "CLICK"), cs, <<>>) :
                     cs \in SeqsUpTo(Candidates, MaxCandidates)}
    /\ acc = NoAcc
    /\ taskObjs = Idle /\ datasets = Idle /\ rng = Idle /\ call = Idle /\ first = Idle
    /\ task = Idle /\ candidate = Idle /\ loaded = Idle

GetHasGroundTruth ==
    /\ acc' = Acc("has_ground_truth", <<>>, FALSE, HasGroundTruth(action))
    /\ UNCHANGED <<taskObjs, datasets, rng, call, first, action, task, candidate, loaded>>

GetPrimaryGroundTruth ==
    /\ acc' = Acc("primary_ground_truth", <<>>, FALSE, PrimaryGroundTruth(action))
    /\ UNCHANGED <<taskObjs, datasets, rng, call, first, action, task, candidate, loaded>>

NextAction ==
    \/ GetHasGroundTruth
    \/ GetPrimaryGroundTruth

SpecAction == InitAction /\ [][NextAction]_vars

\* C1: primary_ground_truth returns the first positive candidate, in stored
\* order, whose is_original_target is true; pos_candidates[0] when none is
\* flagged; None when pos_candidates is empty. The result is None or an
\* element of pos_candidates, and None exactly when has_ground_truth is false.
C1_PrimaryGroundTruth ==
    acc.name = "primary_ground_truth" =>
        LET pos == action.pos_candidates
            Flagged == {i \in DOMAIN pos : pos[i].is_original_target}
            r == acc.val
        IN /\ ~acc.raised
           /\ Flagged # {} =>
                 \E i \in Flagged : (\A j \in Flagged : i <= j) /\ r = Some(pos[i])
           /\ (Flagged = {} /\ Len(pos) > 0) => r = Some(pos[1])
           /\ Len(pos) = 0 => r = None
           /\ (r = None \/ \E i \in DOMAIN pos : r = Some(pos[i]))
           /\ (r = None) <=> ~HasGroundTruth(action)

\* C1 witness: the first positive candidate is not the original target, a
\* later and different one is, and primary_ground_truth returned the later.
C1_Witness ==
    /\ acc.name = "primary_ground_truth"
    /\ Len(action.pos_candidates) >= 2
    /\ ~action.pos_candidates[1].is_original_target
    /\ action.pos_candidates[2].is_original_target
    /\ action.pos_candidates[1].backend_node_id # action.pos_candidates[2].backend_node_id
    /\ acc.val = Some(action.pos_candidates[2])

(***************************************************************************)
(* Task: operation_counts, get_previous_actions                            *)
(***************************************************************************)
MaxActions == 3   \* actions of a Task
MaxReprs == 3     \* entries of a Task's action_reprs

\* Operation.op is typed Literal["CLICK", "TYPE", "SELECT"]; the loader
\* stores whatever the file holds, so another value can occur.
CanonicalOps == {"CLICK", "TYPE", "SELECT"}
Ops == CanonicalOps \cup {"HOVER"}

ActionOf(op) == Action("u1", "<html>", "<html>", Operation(op, "", op), <<>>, <<>>)

\* dict.get(k, default) and d[k] = v
DictGet(d, k, default) == IF k \in DOMAIN d THEN d[k] ELSE default
DictSet(d, k, v) == [x \in DOMAIN d \cup {k} |-> IF x = k THEN v ELSE d[x]]

\* Variant: a count that skips an op outside the initial keys.
RECURSIVE CountLoopClosed(_, _)
CountLoopClosed(counts, actions) ==
    IF actions = <<>> THEN counts
    ELSE LET op == Head(actions).operation.op
         IN CountLoopClosed(
                IF op \in DOMAIN counts THEN DictSet(counts, op, counts[op] + 1) ELSE counts,
                Tail(actions))

RECURSIVE CountLoop(_, _)
\* for action in self.actions: counts[op] = counts.get(op, 0) + 1
CountLoop(counts, actions) ==
    IF actions = <<>> THEN counts
    ELSE LET op == Head(actions).operation.op
         IN CountLoop(DictSet(counts, op, DictGet(counts, op, 0) + 1), Tail(actions))

\* Task.operation_counts
OperationCounts(t) == CountLoop([k \in CanonicalOps |-> 0], t.actions)

\* Task.num_actions
NumActions(t) == Len(t.actions)

\* A slice bound as Python normalises it for a sequence of length n.
SliceBound(i, n) == IF i < 0 THEN Max(i + n, 0) ELSE Min(i, n)

\* s[start:stop]
Slice(s, start, stop) ==
    LET lo == SliceBound(start, Len(s))
        hi == SliceBound(stop, Len(s))
    IN [i \in 1 .. Max(hi - lo, 0) |-> s[lo + i]]

\* Variant: a slice that includes the entry at action_index.
GetPreviousActionsInclusive(t, action_index, max_k) ==
    IF action_index <= 0 THEN <<>>
    ELSE Slice(t.action_reprs, Max(0, action_index - max_k), action_index + 1)

\* Task.get_previous_actions(action_index, max_k)
GetPreviousActions(t, action_index, max_k) ==
    IF action_index <= 0 THEN <<>>
    ELSE Slice(t.action_reprs, Max(0, action_index - max_k), action_index)

ActionIndexes == (0 - 1) .. (MaxReprs + 1)
MaxKs == (0 - 1) .. (MaxReprs + 1)

InitTask ==
    /\ task \in {Task("t1", "united", "Travel", "Airlines", "book a flight",
                       [i \in 1 .. m |-> ToString(i)],
                       [i \in DOMAIN ops |-> ActionOf(ops[i])]) :
                    ops \in SeqsUpTo(Ops, MaxActions), m \in 0 .. MaxReprs}
    /\ acc = NoAcc
    /\ taskObjs = Idle /\ datasets = Idle /\ rng = Idle /\ call = Idle /\ first = Idle
    /\ action = Idle /\ candidate = Idle /\ loaded = Idle

GetOperationCounts ==
    /\ acc' = Acc("operation_counts", <<>>, FALSE, OperationCounts(task))
    /\ UNCHANGED <<taskObjs, datasets, rng, call, first, action, task, candidate, loaded>>

CallGetPreviousActions ==
    /\ \E action_index \in ActionIndexes, max_k \in MaxKs :
          acc' = Acc("get_previous_actions", <<action_index, max_k>>, FALSE,
                     GetPreviousActions(task, action_index, max_k))
    /\ UNCHANGED <<taskObjs, datasets, rng, call, first, action, task, candidate, loaded>>

NextTask ==
    \/ GetOperationCounts
    \/ CallGetPreviousActions

SpecTask == InitTask /\ [][NextTask]_vars

OpsOf(t) == [i \in DOMAIN t.actions |-> t.actions[i].operation.op]

\* C2: operation_counts holds the keys CLICK, TYPE and SELECT with values
\* >= 0; the three counts sum to at most num_actions, and to exactly
\* num_actions when every op is canonical; an op outside the three raises
\* nothing and has a key of its own holding its own number of occurrences.
C2_OperationCounts ==
    acc.name = "operation_counts" =>
        LET c == acc.val
            ops == OpsOf(task)
            sum3 == c["CLICK"] + c["TYPE"] + c["SELECT"]
        IN /\ ~acc.raised
           /\ CanonicalOps \subseteq DOMAIN c
           /\ \A k \in DOMAIN c : c[k] >= 0
           /\ sum3 <= NumActions(task)
           /\ Range(ops) \subseteq CanonicalOps => sum3 = NumActions(task)
           /\ \A o \in Range(ops) : o \in DOMAIN c /\ c[o] = Occurrences(ops, o)

\* C2 witness: a Task with a canonical op and twice an op outside the
\* three, counted.
C2_Witness ==
    /\ acc.name = "operation_counts"
    /\ Occurrences(OpsOf(task), "HOVER") = 2
    /\ Occurrences(OpsOf(task), "CLICK") = 1
    /\ acc.val["HOVER"] = 2

\* What C9 says of a call but for the number of entries: the result is the
\* entries of action_reprs at the positions (0-based) from
\* max(0, action_index - max_k) up to but not including action_index that
\* action_reprs has, in order, and it is empty when action_index <= 0.
PreviousActionsSlice ==
    LET reprs == task.action_reprs
        action_index == acc.args[1]
        max_k == acc.args[2]
        Positions == {p \in DOMAIN reprs :
                         Max(0, action_index - max_k) <= p - 1 /\ p - 1 < action_index}
    IN /\ ~acc.raised
       /\ KeptInOrder(acc.val, reprs, Positions)
       /\ action_index <= 0 => acc.val = <<>>
       /\ \A p \in DOMAIN reprs : p - 1 >= action_index => reprs[p] \notin Range(acc.val)

\* C9 as claimed: for every action_index and every max_k the above holds
\* and the result has at most max_k entries.
C9_PreviousActionsAtMostMaxK ==
    acc.name = "get_previous_actions" =>
        /\ PreviousActionsSlice
        /\ Len(acc.val) <= acc.args[2]

\* C9 as amended: the result has at most max(0, max_k) entries (none when
\* max_k is negative, which is more than max_k).
C9_PreviousActions ==
    acc.name = "get_previous_actions" =>
        /\ PreviousActionsSlice
        /\ Len(acc.val) <= Max(0, acc.args[2])

\* C9 witness: action_reprs has three entries, and the call with
\* action_index 2 and max_k 1 returned the one entry at position 1.
C9_Witness ==
    /\ acc.name = "get_previous_actions"
    /\ Len(task.action_reprs) = 3
    /\ acc.args = <<2, 1>>
    /\ acc.val = <<task.action_reprs[2]>>

(***************************************************************************)
(* Candidate: attributes_dict, is_clickable, bounding_box                  *)
(*                                                                         *)
(* A string is the sequence of its characters. The text of attributes is   *)
(* the sequence of its JSON lexemes: punctuation, string and number        *)
(* literals (with their characters), null, true, and Bad for a lexeme that *)
(* is no JSON.                                                             *)
(***************************************************************************)
MaxTokens == 3   \* lexemes of an attributes text drawn freely

Tok(k, chars) == [k |-> k, s |-> chars]
LBrace == Tok("{", <<>>)
RBrace == Tok("}", <<>>)
LBracket == Tok("[", <<>>)
RBracket == Tok("]", <<>>)
Colon == Tok(":", <<>>)
Comma == Tok(",", <<>>)
NullTok == Tok("null", <<>>)
TrueTok == Tok("true", <<>>)
Bad == Tok("bad", <<>>)
StrTok(chars) == Tok("str", chars)
NumTok(chars) == Tok("num", chars)

\* The strings 'is_clickable', 'bounding_box_rect' and 'true' of the accessors.
IsClickableKey == <<"i", "s", "_", "c", "l", "i", "c", "k", "a", "b", "l", "e">>
BoundingBoxRectKey ==
    <<"b", "o", "u", "n", "d", "i", "n", "g", "_", "b", "o", "x", "_", "r", "e", "c", "t">>
TrueStr == <<"t", "r", "u", "e">>

\* The values json.loads returns, tagged by their Python type.
JNull == [t |-> "NoneType"]
JBool(b) == [t |-> "bool", b |-> b]
JNum(chars) == [t |-> "int", s |-> chars]
JStr(chars) == [t |-> "str", s |-> chars]
JList(items) == [t |-> "list", items |-> items]
JDict(d) == [t |-> "dict", d |-> d]
EmptyDict == JDict(<<>>)

ParseFail == [ok |-> FALSE, val |-> JNull, rest |-> <<>>]
Parsed(v, rest) == [ok |-> TRUE, val |-> v, rest |-> rest]

RECURSIVE ParseValue(_)
RECURSIVE ParseElements(_, _)
RECURSIVE ParseMembers(_, _)

\* The elements of an array after its "[" or a ",", up to its "]".
ParseElements(ts, items) ==
    LET v == ParseValue(ts)
    IN IF ~v.ok \/ v.rest = <<>> THEN ParseFail
       ELSE IF Head(v.rest).k = "," THEN ParseElements(Tail(v.rest), Append(items, v.val))
       ELSE IF Head(v.rest).k = "]" THEN Parsed(JList(Append(items, v.val)), Tail(v.rest))
       ELSE ParseFail

\* The members of an object after its "{" or a ",", up to its "}"; a key
\* given twice keeps its last value.
ParseMembers(ts, d) ==
    IF Len(ts) < 2 \/ ts[1].k # "str" \/ ts[2].k # ":" THEN ParseFail
    ELSE LET v == ParseValue(Tail(Tail(ts)))
             d2 == [x \in DOMAIN d \cup {ts[1].s} |-> IF x = ts[1].s THEN v.val ELSE d[x]]
         IN IF ~v.ok \/ v.rest = <<>> THEN ParseFail
            ELSE IF Head(v.rest).k = "," THEN ParseMembers(Tail(v.rest), d2)
            ELSE IF Head(v.rest).k = "}" THEN Parsed(JDict(d2), Tail(v.rest))
            ELSE ParseFail

\* One JSON value at the head of ts.
ParseValue(ts) ==
    IF ts = <<>> THEN ParseFail
    ELSE LET h == Head(ts) IN
         CASE h.k = "null" -> Parsed(JNull, Tail(ts))
           [] h.k = "true" -> Parsed(JBool(TRUE), Tail(ts))
           [] h.k = "num" -> Parsed(JNum(h.s), Tail(ts))
           [] h.k = "str" -> Parsed(JStr(h.s), Tail(ts))
           [] h.k = "[" ->
                IF Len(ts) >= 2 /\ ts[2].k = "]"
                THEN Parsed(JList(<<>>), Tail(Tail(ts)))
                ELSE ParseElements(Tail(ts), <<>>)
           [] h.k = "{" ->
                IF Len(ts) >= 2 /\ ts[2].k = "}"
                THEN Parsed(EmptyDict, Tail(Tail(ts)))
                ELSE ParseMembers(Tail(ts), <<>>)
           [] OTHER -> ParseFail

\* json.loads(text): one value and nothing after it, else JSONDecodeError.
JsonLoads(text) ==
    LET v == ParseValue(text)
    IN IF v.ok /\ v.rest = <<>> THEN v ELSE ParseFail

\* bool(v) of a value json.loads returned
Truthy(v) ==
    CASE v.t = "NoneType" -> FALSE
      [] v.t = "bool" -> v.b
      [] v.t = "int" -> v.s # <<"0">>
      [] v.t = "str" -> Len(v.s) > 0
      [] v.t = "list" -> Len(v.items) > 0
      [] v.t = "dict" -> DOMAIN v.d # {}

RECURSIVE SplitFrom(_, _, _)
SplitFrom(chars, sep, part) ==
    IF chars = <<>> THEN <<part>>
    ELSE IF Head(chars) = sep THEN <<part>> \o SplitFrom(Tail(chars), sep, <<>>)
    ELSE SplitFrom(Tail(chars), sep, Append(part, Head(chars)))

\* str.split(sep)
Split(chars, sep) == SplitFrom(chars, sep, <<>>)

Digits == <<"0", "1", "2", "3", "4", "5", "6", "7", "8", "9">>
IsDigit(c) == \E i \in DOMAIN Digits : Digits[i] = c
DigitValue(c) == (CHOOSE i \in DOMAIN Digits : Digits[i] = c) - 1

RECURSIVE Decimal(_, _)
Decimal(chars, n) ==
    IF chars = <<>> THEN n ELSE Decimal(Tail(chars), 10 * n + DigitValue(Head(chars)))

\* float(p) for a p made of the characters the model uses (digits and
\* letters): the number p writes, ValueError unless p is digits.
Float(p) ==
    IF Len(p) > 0 /\ \A i \in DOMAIN p : IsDigit(p[i])
    THEN [raised |-> FALSE, val |-> Decimal(p, 0)]
    ELSE [raised |-> TRUE, val |-> 0]

\* Candidate.attributes_dict: {} for an empty text or a JSONDecodeError,
\* else whatever json.loads returned.
AttributesDict(c) ==
    IF Len(c.attributes) = 0 THEN Acc("attributes_dict", <<>>, FALSE, EmptyDict)
    ELSE LET v == JsonLoads(c.attributes)
         IN Acc("attributes_dict", <<>>, FALSE, IF v.ok THEN v.val ELSE EmptyDict)

\* Candidate.is_clickable: attrs.get('is_clickable') == 'true'; a value
\* that is no dict has no get (AttributeError).
IsClickable(c) ==
    LET attrs == AttributesDict(c).val
    IN IF attrs.t # "dict" THEN Acc("is_clickable", <<>>, TRUE, None)
       ELSE LET v == DictGet(attrs.d, IsClickableKey, JNull)
            IN Acc("is_clickable", <<>>, FALSE, v.t = "str" /\ v.s = TrueStr)

\* Candidate.bounding_box: the first four parts of bounding_box_rect as
\* floats; None when it is missing or falsy, has fewer than four parts or
\* float raises ValueError; a truthy value that is no str has no split
\* (AttributeError, which the except clause does not catch).
BoundingBox(c) ==
    LET attrs == AttributesDict(c).val
    IN IF attrs.t # "dict" THEN Acc("bounding_box", <<>>, TRUE, None)
       ELSE LET bbox_str == DictGet(attrs.d, BoundingBoxRectKey, JStr(<<>>))
            IN IF ~Truthy(bbox_str) THEN Acc("bounding_box", <<>>, FALSE, None)
               ELSE IF bbox_str.t # "str" THEN Acc("bounding_box", <<>>, TRUE, None)
               ELSE LET parts == Split(bbox_str.s, ",")
                    IN IF Len(parts) >= 4 /\ \A i \in 1 .. 4 : ~Float(parts[i]).raised
                       THEN Acc("bounding_box", <<>>, FALSE,
                                Some([i \in 1 .. 4 |-> Float(parts[i]).val]))
                       ELSE Acc("bounding_box", <<>>, FALSE, None)

\* The attributes texts the accessors are tried on: every text of at most
\* MaxTokens of FreeTokens, and the objects giving is_clickable and
\* bounding_box_rect, one of them or both, a value of ValueTexts.
FreeTokens ==
    {LBrace, RBrace, LBracket, RBracket, Colon, Comma, NullTok, NumTok(<<"5">>),
     StrTok(TrueStr), StrTok(IsClickableKey), Bad}

BoxStrings ==
    {<<"1", "0", ",", "2", "0", ",", "3", "0", ",", "4", "0">>,
     <<"1", ",", "2", ",", "3">>,
     <<"1", ",", "x", ",", "3", ",", "4">>,
     <<"1", ",", "2", ",", "3", ",", "4", ",", "x">>}

ValueTexts ==
    {<<StrTok(chars)>> : chars \in BoxStrings \cup {TrueStr, <<>>}}
    \cup {<<NumTok(<<"5">>)>>, <<NumTok(<<"0">>)>>, <<NullTok>>, <<TrueTok>>,
          <<LBracket, RBracket>>, <<LBracket, NumTok(<<"5">>), RBracket>>,
          <<LBrace, RBrace>>}

ObjectTexts ==
    {<<LBrace, StrTok(k), Colon>> \o v \o <<RBrace>> :
        k \in {IsClickableKey, BoundingBoxRectKey}, v \in ValueTexts}
    \cup {<<LBrace, StrTok(BoundingBoxRectKey), Colon>> \o v \o
          <<Comma, StrTok(IsClickableKey), Colon>> \o w \o <<RBrace>> :
            v \in ValueTexts, w \in ValueTexts}

InitCandidate ==
    /\ candidate \in {Candidate("n1", "a", text, FALSE, FALSE) :
                         text \in SeqsUpTo(FreeTokens, MaxTokens) \cup ObjectTexts}
    /\ acc = NoAcc
    /\ taskObjs = Idle /\ datasets = Idle /\ rng = Idle /\ call = Idle /\ first = Idle
    /\ action = Idle /\ task = Idle /\ loaded = Idle

GetAttributesDict ==
    /\ acc' = AttributesDict(candidate)
    /\ UNCHANGED <<taskObjs, datasets, rng, call, first, action, task, candidate, loaded>>

GetIsClickable ==
    /\ acc' = IsClickable(candidate)
    /\ UNCHANGED <<taskObjs, datasets, rng, call, first, action, task, candidate, loaded>>

GetBoundingBox ==
    /\ acc' = BoundingBox(candidate)
    /\ UNCHANGED <<taskObjs, datasets, rng, call, first, action, task, candidate, loaded>>

NextCandidate ==
    \/ GetAttributesDict
    \/ GetIsClickable
    \/ GetBoundingBox

SpecCandidate == InitCandidate /\ [][NextCandidate]_vars

\* C8 as claimed: whatever string attributes holds, attributes_dict,
\* is_clickable and bounding_box do not raise; attributes_dict returns a
\* mapping, is_clickable a boolean, bounding_box None or four numbers.
C8_AccessorsNeverRaise ==
    acc.name \in {"attributes_dict", "is_clickable", "bounding_box"} =>
        /\ ~acc.raised
        /\ acc.name = "attributes_dict" => acc.val.t = "dict"
        /\ acc.name = "is_clickable" => acc.val \in BOOLEAN
        /\ acc.name = "bounding_box" =>
              \/ acc.val = None
              \/ Len(acc.val[1]) = 4 /\ \A i \in 1 .. 4 : acc.val[1][i] \in Nat

(***************************************************************************)
(* Loader: load_candidate, load_operation, load_action, load_task,         *)
(* load_json_file, load_multiple_files                                     *)
(*                                                                         *)
(* A raw record (a dict json.load returned) is a function from the keys it *)
(* holds to their values. A load function returns Ok(value) or KeyError.   *)
(***************************************************************************)
MaxFileTasks == 2   \* task records of a file given to load_json_file
MaxFiles == 2       \* files given to load_multiple_files

Ok(v) == [raised |-> FALSE, val |-> v]
KeyError == [raised |-> TRUE, val |-> None]

\* backend_node_id as the file gives it: a JSON number or a JSON string.
RawInt(n) == [t |-> "int", n |-> n]
RawStr(chars) == [t |-> "str", s |-> chars]

\* str(v)
Str(v) == IF v.t = "int" THEN ToString(v.n) ELSE v.s

\* Variant: a comprehension that skips the elements whose load raised.
CollectSkipping(results) ==
    LET Kept == {i \in DOMAIN results : ~results[i].raised}
        nth(k) == CHOOSE i \in Kept : Cardinality({j \in Kept : j < i}) = k - 1
    IN Ok([k \in 1 .. Cardinality(Kept) |-> results[nth(k)].val])

\* [load(x) for x in xs], given each load(x): the exception of an element
\* is the exception of the comprehension.
Collect(results) ==
    IF \E i \in DOMAIN results : results[i].raised THEN KeyError
    ELSE Ok([i \in DOMAIN results |-> results[i].val])

LoadCandidate(candidate_dict) ==
    IF ~({"backend_node_id", "tag"} \subseteq DOMAIN candidate_dict) THEN KeyError
    ELSE Ok(Candidate(Str(candidate_dict["backend_node_id"]),
                      candidate_dict["tag"],
                      DictGet(candidate_dict, "attributes", <<>>),
                      DictGet(candidate_dict, "is_original_target", FALSE),
                      DictGet(candidate_dict, "is_top_level_target", FALSE)))

LoadOperation(operation_dict) ==
    IF "op" \notin DOMAIN operation_dict THEN KeyError
    ELSE Ok(Operation(operation_dict["op"],
                      DictGet(operation_dict, "value", ""),
                      DictGet(operation_dict, "original_op", operation_dict["op"])))

LoadAction(action_dict) ==
    IF "operation" \notin DOMAIN action_dict THEN KeyError
    ELSE LET operation == LoadOperation(action_dict["operation"])
             raw_pos == DictGet(action_dict, "pos_candidates", <<>>)
             raw_neg == DictGet(action_dict, "neg_candidates", <<>>)
             pos_candidates == Collect([i \in DOMAIN raw_pos |-> LoadCandidate(raw_pos[i])])
             neg_candidates == Collect([i \in DOMAIN raw_neg |-> LoadCandidate(raw_neg[i])])
         IN IF operation.raised \/ pos_candidates.raised \/ neg_candidates.raised
            THEN KeyError
            ELSE IF ~({"action_uid", "raw_html", "cleaned_html"} \subseteq DOMAIN action_dict)
            THEN KeyError
            ELSE Ok(Action(action_dict["action_uid"], action_dict["raw_html"],
                           action_dict["cleaned_html"], operation.val,
                           pos_candidates.val, neg_candidates.val))

LoadTask(task_dict) ==
    IF "actions" \notin DOMAIN task_dict THEN KeyError
    ELSE LET raw == task_dict["actions"]
             actions == Collect([i \in DOMAIN raw |-> LoadAction(raw[i])])
         IN IF actions.raised THEN KeyError
            ELSE IF ~({"annotation_id", "website", "domain", "subdomain", "confirmed_task"}
                        \subseteq DOMAIN task_dict)
            THEN KeyError
            ELSE Ok(Task(task_dict["annotation_id"], task_dict["website"],
                         task_dict["domain"], task_dict["subdomain"],
                         task_dict["confirmed_task"],
                         DictGet(task_dict, "action_reprs", <<>>), actions.val))

\* load_json_file(file_path): file is the path, as Path splits it, with the
\* data json.load reads from it; the split is the path's stem.
LoadJsonFile(file) ==
    LET tasks == Collect([i \in DOMAIN file.raw_data |-> LoadTask(file.raw_data[i])])
    IN IF tasks.raised THEN KeyError
       ELSE Ok(Mind2WebDataset(tasks.val, <<file.stem>>))

RECURSIVE ExtendLoop(_, _)
\* for file_path in file_paths: all_tasks.extend(load_json_file(file_path).tasks)
ExtendLoop(all_tasks, files) ==
    IF files = <<>> THEN Ok(all_tasks)
    ELSE LET dataset == LoadJsonFile(Head(files))
         IN IF dataset.raised THEN KeyError
            ELSE ExtendLoop(all_tasks \o dataset.val.tasks, Tail(files))

\* load_multiple_files(file_paths, split_name)
LoadMultipleFiles(files, split_name) ==
    LET all_tasks == ExtendLoop(<<>>, files)
    IN IF all_tasks.raised THEN KeyError
       ELSE Ok(Mind2WebDataset(all_tasks.val,
                               IF split_name = None THEN <<"combined">> ELSE split_name))

\* The raw records the loader is tried on: a record with every field, and
\* the same with one field left out, of the task, of its action, of the
\* action's operation or of the second positive candidate.
Without(f, keys) == [k \in DOMAIN f \ keys |-> f[k]]

RawCandidate(missing) ==
    Without([backend_node_id |-> RawInt(123), tag |-> "a", attributes |-> <<>>,
             is_original_target |-> TRUE, is_top_level_target |-> TRUE], missing)

RawOperation(missing) ==
    Without([op |-> "TYPE", value |-> "NYC", original_op |-> "TYPE"], missing)

RawAction(missing, in_operation, in_candidate) ==
    Without([action_uid |-> "u1", raw_html |-> "<html>", cleaned_html |-> "<html>",
             operation |-> RawOperation(in_operation),
             pos_candidates |-> <<RawCandidate({}), RawCandidate(in_candidate)>>,
             neg_candidates |-> <<[RawCandidate({}) EXCEPT !.backend_node_id = RawStr("n7")]>>],
            missing)

RawTask(missing, in_action, in_operation, in_candidate) ==
    Without([annotation_id |-> "t1", website |-> "united", domain |-> "Travel",
             subdomain |-> "Airlines", confirmed_task |-> "book a flight",
             action_reprs |-> <<"[textbox] From -> TYPE: NYC">>,
             actions |-> <<RawAction(in_action, in_operation, in_candidate)>>], missing)

TaskKeys ==
    {"annotation_id", "website", "domain", "subdomain", "confirmed_task", "action_reprs",
     "actions"}
ActionKeys ==
    {"action_uid", "raw_html", "cleaned_html", "operation", "pos_candidates",
     "neg_candidates"}
OperationKeys == {"op", "value", "original_op"}
CandidateKeys ==
    {"backend_node_id", "tag", "attributes", "is_original_target", "is_top_level_target"}

RawTasks ==
    {RawTask({}, {}, {}, {})}
    \cup {RawTask({k}, {}, {}, {}) : k \in TaskKeys}
    \cup {RawTask({}, {k}, {}, {}) : k \in ActionKeys}
    \cup {RawTask({}, {}, {k}, {}) : k \in OperationKeys}
    \cup {RawTask({}, {}, {}, {k}) : k \in CandidateKeys}

File(stem, raw_data) == [parent |-> "data/train", stem |-> stem, suffix |-> ".json",
                         raw_data |-> raw_data]

\* The last loader call: its name, the files it read, and what it returned.
Loaded(name, files, result) ==
    [name |-> name, files |-> files, raised |-> result.raised, val |-> result.val]

InitLoader ==
    /\ loaded = Loaded("", <<>>, Ok(None))
    /\ taskObjs = Idle /\ datasets = Idle /\ rng = Idle /\ call = Idle /\ first = Idle
    /\ action = Idle /\ task = Idle /\ candidate = Idle /\ acc = Idle

\* The loader keeps nothing between calls (it has no module-level state):
\* a run of SpecLoader is one call.
NotCalled == loaded.name = ""

CallLoadJsonFile ==
    /\ NotCalled
    /\ \E raw_data \in SeqsUpTo(RawTasks, MaxFileTasks) :
          LET file == File("train_0", raw_data)
          IN loaded' = Loaded("load_json_file", <<file>>, LoadJsonFile(file))
    /\ UNCHANGED <<taskObjs, datasets, rng, call, first, action, task, candidate, acc>>

\* The files of a load_multiple_files call hold at most one task each.
CallLoadMultipleFiles ==
    /\ NotCalled
    /\ \E contents \in SeqsUpTo(SeqsUpTo(RawTasks, 1), MaxFiles),
          split_name \in {None, <<"train">>} :
          LET files == [i \in DOMAIN contents |-> File("train_" \o ToString(i - 1), contents[i])]
          IN loaded' = Loaded("load_multiple_files", files,
                              LoadMultipleFiles(files, split_name))
    /\ UNCHANGED <<taskObjs, datasets, rng, call, first, action, task, candidate, acc>>

NextLoader ==
    \/ CallLoadJsonFile
    \/ CallLoadMultipleFiles

SpecLoader == InitLoader /\ [][NextLoader]_vars

\* The required fields of the records of a file, by kind of record.
CandidateComplete(c) == {"backend_node_id", "tag"} \subseteq DOMAIN c

OperationComplete(o) == "op" \in DOMAIN o

ActionComplete(a) ==
    /\ {"action_uid", "raw_html", "cleaned_html", "operation"} \subseteq DOMAIN a
    /\ OperationComplete(a["operation"])
    /\ \A k \in {"pos_candidates", "neg_candidates"} \cap DOMAIN a :
          \A i \in DOMAIN a[k] : CandidateComplete(a[k][i])

TaskComplete(t) ==
    /\ {"annotation_id", "website", "domain", "subdomain", "confirmed_task", "actions"}
          \subseteq DOMAIN t
    /\ \A i \in DOMAIN t["actions"] : ActionComplete(t["actions"][i])

FileComplete(file) == \A i \in DOMAIN file.raw_data : TaskComplete(file.raw_data[i])

\* C7: when a record of a file given to load_json_file or
\* load_multiple_files lacks a required field, the call raises and returns
\* no dataset, whatever the records and the files before it hold.
C7_LoadAllOrNothing ==
    (loaded.name # "" /\ \E i \in DOMAIN loaded.files : ~FileComplete(loaded.files[i]))
    => loaded.raised /\ loaded.val = None

\* C7 witness: load_multiple_files of a complete file followed by a file
\* whose record lacks a field raised.
C7_Witness ==
    /\ loaded.name = "load_multiple_files"
    /\ Len(loaded.files) = 2
    /\ Len(loaded.files[1].raw_data) = 1 /\ FileComplete(loaded.files[1])
    /\ ~FileComplete(loaded.files[2])
    /\ loaded.raised

====
